---- MODULE Spec2Model ----
(***************************************************************************)
(* A model of png.go (openrm/gofpdf): the streaming PNG chunk reader       *)
(* (pngStream), the pipeline entry point (Fpdf.parsepngstream) and the     *)
(* alpha demultiplexer (alphaSeparator).                                   *)
(*                                                                         *)
(* The byte source p.r is an in-memory reader over the byte sequence src:  *)
(* p.r is the number of bytes already consumed.  Every operator below is   *)
(* the translation of the method of the same name; a method returns a      *)
(* record holding the updated receiver and its results.                    *)
(***************************************************************************)
EXTENDS Integers, Sequences, FiniteSets, TLC

VARIABLES
    img,     \* ghost: the chunk-level description src was encoded from
    src,     \* the bytes of the source behind p.r
    p,       \* the pngStream struct
    out,     \* every byte pngStream.Read has returned so far, in order
    ret,     \* the last call on the pngStream and what it returned
    final,   \* ghost: out and the error at the first Read that returned an error
    info,    \* what parsepngstream returned: NoInfo (nil) or <<descriptor>>
    first,   \* ghost: what the first call returned, and p.state and p.r then
    ferr,    \* Fpdf.err
    pdfVersion,  \* Fpdf.pdfVersion
    up,      \* the raw scanline bytes behind astm.rc
    astm,    \* the alphaSeparator struct
    color,   \* every byte alphaSeparator.Read has returned so far, in order
    written, \* every byte written to astm.writer so far, in order
    aret     \* the last alphaSeparator.Read: its buffer and what it returned

pngVars == <<img, src, p, out, ret, final, info, first, ferr, pdfVersion>>
alphaVars == <<up, astm, color, written, aret>>
vars == <<pngVars, alphaVars>>

(***************************************************************************)
(* Bounds of the model.                                                    *)
(***************************************************************************)
\* chunks after IHDR in an enumerated source (IEND is one of them)
MaxChunks == 3
\* caller buffer lengths 1..MaxBuf are tried by Read
MaxBuf == 3
\* image widths and heights 0..MaxW, 0..MaxH given to newAlphaSeparator
MaxW == 2
MaxH == 2

(***************************************************************************)
(* Program constants.                                                      *)
(***************************************************************************)
stateInit == 0
stateSignature == 1
stateHeader == 2
stateAnc == 3
stateData == 4
stateEnd == 5
\* len(p.buf), buf [3 << 8]byte
BufLen == 768

pngSignature == <<137, 80, 78, 71, 13, 10, 26, 10>>

Nil == "nil"
\* a nil *ImageInfoType; a non-nil one is the one-element sequence <<descriptor>>
NoInfo == <<>>
EOF == "EOF"
ErrUnexpectedEOF == "unexpected EOF"
ErrSignature == "not a PNG buffer"
ErrDepth == "16-bit depth not supported in PNG file"
ErrCompression == "'unknown compression method in PNG buffer"
ErrFilter == "'unknown filter method in PNG buffer"
ErrInterlace == "interlacing not supported in PNG buffer"
ErrColorType == "unknown color type in PNG buffer"
ErrPalette == "missing palette in PNG buffer"
ErrZlib == "zlib: invalid header"
Panic == "panic: index out of range"

\* the errors the code builds with fmt.Errorf: the FormatErrors of the spec
FormatErrors ==
    {ErrSignature, ErrDepth, ErrCompression, ErrFilter, ErrInterlace,
     ErrColorType, ErrPalette}

TagIHDR == <<73, 72, 68, 82>>
TagPLTE == <<80, 76, 84, 69>>
TagtRNS == <<116, 82, 78, 83>>
TagpHYs == <<112, 72, 89, 115>>
TagIDAT == <<73, 68, 65, 84>>
TagIEND == <<73, 69, 78, 68>>
TagtEXt == <<116, 69, 88, 116>>

min(a, b) == IF a < b THEN a ELSE b

\* binary.BigEndian.Uint32
Uint32(b) == ((b[1] * 256 + b[2]) * 256 + b[3]) * 256 + b[4]

\* the inverse, used to encode the enumerated sources
BE32(n) ==
    <<(n \div 16777216) % 256, (n \div 65536) % 256, (n \div 256) % 256, n % 256>>

(***************************************************************************)
(* The enumerated sources.                                                 *)
(***************************************************************************)
\* checksums are never verified: two values, one of them all zero
CRCs == {<<53, 175, 6, 30>>, <<0, 0, 0, 0>>}

Kinds == {"IDAT0", "IDAT2", "PLTE3", "tRNS2", "pHYs", "tEXt0", "tEXt1", "IEND"}

\* tRNS chunks of every declared length 0..6
TrnsNames == <<"tRNS0", "tRNS1", "tRNS2", "tRNS3", "tRNS4", "tRNS5", "tRNS6">>

TrnsKinds == {TrnsNames[n] : n \in 1..Len(TrnsNames)}

TrnsLen(k) == (CHOOSE n \in 1..Len(TrnsNames) : TrnsNames[n] = k) - 1

KindTag(k) ==
    CASE k \in {"IDAT0", "IDAT1", "IDAT2"} -> TagIDAT
      [] k \in {"PLTE0", "PLTE3"} -> TagPLTE
      [] k \in TrnsKinds -> TagtRNS
      [] k = "pHYs" -> TagpHYs
      [] k \in {"tEXt0", "tEXt1"} -> TagtEXt
      [] OTHER -> TagIEND

\* the payload of the i-th chunk after IHDR; payload bytes tell the chunks apart.
\* An IDAT2 payload is a valid zlib stream header, an IDAT1 payload is not.
\* Every byte after the signature is below 128, so that any four of them read
\* as a big-endian uint32 stay below 2^31.
KindPayload(k, i) ==
    CASE k = "IDAT1" -> <<40 + i>>
      [] k = "IDAT2" -> <<8 + 16 * i, 29 - 4 * i>>
      [] k = "PLTE3" -> <<11, 12, 13>>
      [] k \in TrnsKinds -> SubSeq(<<7, 0, 9, 10, 11, 12>>, 1, TrnsLen(k))
      [] k = "pHYs" -> <<0, 0, 11, 19, 0, 0, 11, 19, 1>>
      [] k = "tEXt1" -> <<100 + i>>
      [] OTHER -> <<>>

EncodeChunk(tag, payload, crc) == BE32(Len(payload)) \o tag \o payload \o crc

\* IHDR of a 1 x 1 image
EncodeHeader(h, crc) ==
    EncodeChunk(TagIHDR,
                BE32(1) \o BE32(1) \o <<h.bpc, h.ct, h.comp, h.filt, h.ilace>>,
                crc)

RECURSIVE EncodeBody(_, _, _)
EncodeBody(body, i, crc) ==
    IF i > Len(body) THEN <<>>
    ELSE EncodeChunk(KindTag(body[i]), KindPayload(body[i], i), crc)
             \o EncodeBody(body, i + 1, crc)

\* sig: "good", "bad" or "none"
EncodeSig(sig) ==
    CASE sig = "good" -> pngSignature
      [] sig = "bad" -> <<137, 80, 78, 71, 13, 10, 26, 11>>
      [] OTHER -> <<>>

EncodeFull(i) ==
    EncodeSig(i.sig)
        \o (IF i.hasHdr THEN EncodeHeader(i.hdr, i.crc) ELSE <<>>)
        \o EncodeBody(i.body, 1, i.crc)

Encode(i) == SubSeq(EncodeFull(i), 1, i.cut)

Hdr(bpc, ct, comp, filt, ilace) ==
    [bpc |-> bpc, ct |-> ct, comp |-> comp, filt |-> filt, ilace |-> ilace]

\* the headers the chunk reader accepts and the classification knows
StdHdrs == {Hdr(8, ct, 0, 0, 0) : ct \in {0, 2, 3, 4, 6}}

\* rejected by parseHeader, or by pngColorSpace (color type 5)
BadHdrs ==
    {Hdr(16, 0, 0, 0, 0), Hdr(8, 0, 1, 0, 0), Hdr(8, 2, 0, 1, 0),
     Hdr(8, 3, 0, 0, 1), Hdr(16, 3, 1, 1, 1), Hdr(8, 5, 0, 0, 0)}

RECURSIVE SeqsUpTo(_, _)
SeqsUpTo(S, n) ==
    IF n = 0 THEN {<<>>}
    ELSE LET shorter == SeqsUpTo(S, n - 1)
         IN  shorter \cup {Append(s, x) : s \in {t \in shorter : Len(t) = n - 1}, x \in S}

Bodies == SeqsUpTo(Kinds, MaxChunks)

ShortBodies ==
    {<<"IDAT1", "IEND">>, <<"IDAT1">>, <<"PLTE3", "IDAT2", "IEND">>,
     <<"PLTE0", "IDAT2", "IEND">>, <<"tRNS2", "IDAT2", "IEND">>,
     <<"tEXt1", "IDAT1", "IDAT1", "IEND">>, <<"IEND">>}


(***************************************************************************)
(* The byte source p.r: an in-memory reader (bytes.Reader) over src.       *)
(***************************************************************************)
\* io.ReadFull(p.r, buf[:n]) with r bytes of the source already consumed
ReadFull(r, n) ==
    LET avail == Len(src) - r
    IN  IF n = 0 THEN [n |-> 0, err |-> Nil, b |-> <<>>]
        ELSE IF avail = 0 THEN [n |-> 0, err |-> EOF, b |-> <<>>]
        ELSE IF avail < n
             THEN [n |-> avail, err |-> ErrUnexpectedEOF, b |-> SubSeq(src, r + 1, r + avail)]
        ELSE [n |-> n, err |-> Nil, b |-> SubSeq(src, r + 1, r + n)]

\* p.r.Read(buf[:n]), n >= 1
SourceRead(r, n) ==
    LET avail == Len(src) - r
        m == min(n, avail)
    IN  IF avail = 0 THEN [n |-> 0, err |-> EOF, b |-> <<>>]
        ELSE [n |-> m, err |-> Nil, b |-> SubSeq(src, r + 1, r + m)]

(***************************************************************************)
(* pngStream                                                               *)
(***************************************************************************)
\* &pngStream{r: r, readdpi: readdpi}; r is the number of source bytes read.
\* frames is not a field of the code: it records the set of source offsets at
\* which parseChunk has started to read a chunk frame
NewPngStream(readdpi) ==
    [r |-> 0, state |-> stateInit, readable |-> 0, trns |-> <<>>, pal |-> <<>>,
     readdpi |-> readdpi, dpi |-> [x |-> 0, perMeter |-> FALSE],
     w |-> 0, h |-> 0, bpc |-> 0, ct |-> 0, frames |-> {}]

\* a short read is reported as io.EOF
nextErr(e) == IF e = ErrUnexpectedEOF THEN EOF ELSE e

next(q, n) ==
    LET f == ReadFull(q.r, n)
    IN  [p |-> [q EXCEPT !.r = @ + f.n],
         n |-> IF f.err = ErrUnexpectedEOF THEN 0 ELSE f.n,
         err |-> nextErr(f.err),
         b |-> f.b]

readByte(q) ==
    LET x == next(q, 1)
    IN  [p |-> x.p, v |-> IF x.err # Nil THEN 0 ELSE x.b[1], err |-> x.err]

readBeUint32(q) ==
    LET x == next(q, 4)
    IN  [p |-> x.p, v |-> IF x.err # Nil THEN 0 ELSE Uint32(x.b), err |-> x.err]

readString(q, n) ==
    LET x == next(q, n)
    IN  [p |-> x.p, v |-> IF x.err # Nil THEN <<>> ELSE x.b, err |-> x.err]

\* only the first four bytes are compared
SignatureDiffersPrefix(sign) == SubSeq(sign, 1, 4) # SubSeq(pngSignature, 1, 4)

\* sign != pngSignature
SignatureDiffers(sign) == sign # pngSignature

\* the value of a call, evaluated once: the element of a one-element set
Result(S) == CHOOSE y \in S : TRUE

\* return, with err as given (Nil for a plain return)
Return(q, e) == [p |-> q, err |-> e]

\* Then: if err != nil { return }
parseSignature(q) ==
    LET Then(r, K(_)) ==
            Result({IF x.err # Nil THEN Return(x.p, x.err) ELSE K(x) : x \in {r}})
    IN  Then(readString([q EXCEPT !.state = stateSignature], Len(pngSignature)), LAMBDA s :
        IF SignatureDiffers(s.v) THEN Return(s.p, ErrSignature)
        ELSE Return(s.p, Nil))

\* the depth is compared with 16
DepthRejected16(bpc) == bpc > 16

\* p.bpc > 8
DepthRejected(bpc) == bpc > 8

\* the field is assigned before err is looked at
parseHeader(q) ==
    LET setW(x) == Result({[y EXCEPT !.p.w = y.v] : y \in {x}})
        setH(x) == Result({[y EXCEPT !.p.h = y.v] : y \in {x}})
        setBpc(x) == Result({[y EXCEPT !.p.bpc = y.v] : y \in {x}})
        setCt(x) == Result({[y EXCEPT !.p.ct = y.v] : y \in {x}})
        Then(r, K(_)) ==
            Result({IF x.err # Nil THEN Return(x.p, x.err) ELSE K(x) : x \in {r}})
    IN  Then(setW(readBeUint32(q)), LAMBDA a :
        Then(setH(readBeUint32(a.p)), LAMBDA b :
        Then(setBpc(readByte(b.p)), LAMBDA c :
        IF DepthRejected(c.p.bpc) THEN Return(c.p, ErrDepth) ELSE
        Then(setCt(readByte(c.p)), LAMBDA d :
        Then(readByte(d.p), LAMBDA e :
        IF e.v # 0 THEN Return(e.p, ErrCompression) ELSE
        Then(readByte(e.p), LAMBDA f :
        IF f.v # 0 THEN Return(f.p, ErrFilter) ELSE
        Then(readByte(f.p), LAMBDA g :
        IF g.v # 0 THEN Return(g.p, ErrInterlace)
        ELSE Return(g.p, Nil))))))))

\* make([]byte, n) filled by io.ReadFull: what was not read stays zero
Filled(f, n) == f.b \o [i \in 1..(n - f.n) |-> 0]

parsePalette(q) ==
    LET f == ReadFull(q.r, q.readable)
    IN  [p |-> [q EXCEPT !.r = @ + f.n, !.pal = Filled(f, q.readable)], err |-> f.err]

\* strings.Index(string(t), "\x00"): 0-based, -1 when absent
IndexZero(t) ==
    IF \E i \in 1..Len(t) : t[i] = 0
    THEN (CHOOSE i \in 1..Len(t) : t[i] = 0 /\ \A j \in 1..(i - 1) : t[j] # 0) - 1
    ELSE -1

\* t[1], t[3], t[5] of the code are t[2], t[4], t[6] here; an index past
\* len(t) is a run-time panic
parsetRNS(q) ==
    LET f == ReadFull(q.r, q.readable)
        t == f.b
        q1 == [q EXCEPT !.r = @ + f.n]
        pos == IndexZero(t)
    IN  IF f.err # Nil THEN [p |-> q1, err |-> f.err]
        ELSE IF q.ct = 0
             THEN IF Len(t) < 2 THEN [p |-> q1, err |-> Panic]
                  ELSE [p |-> [q1 EXCEPT !.trns = <<t[2]>>], err |-> Nil]
        ELSE IF q.ct = 2
             THEN IF Len(t) < 6 THEN [p |-> q1, err |-> Panic]
                  ELSE [p |-> [q1 EXCEPT !.trns = <<t[2], t[4], t[6]>>], err |-> Nil]
        ELSE IF pos >= 0 THEN [p |-> [q1 EXCEPT !.trns = <<pos>>], err |-> Nil]
        ELSE [p |-> q1, err |-> Nil]

\* float64(x) / 39.3701 is kept symbolic: the pair (x, perMeter)
parsepHYs(q) ==
    LET Then(r, K(_)) ==
            Result({IF x.err # Nil THEN Return(x.p, x.err) ELSE K(x) : x \in {r}})
    IN  Then(readBeUint32(q), LAMBDA x :
        Then(readBeUint32(x.p), LAMBDA y :
        Then(readByte(y.p), LAMBDA u :
        IF x.v = y.v /\ q.readdpi
        THEN Return([u.p EXCEPT !.dpi = [x |-> x.v, perMeter |-> (u.v = 1)]], Nil)
        ELSE Return(u.p, Nil))))

RECURSIVE ignoreChunk(_, _)
ignoreChunk(q, n) ==
    IF n > 0
    THEN LET f == ReadFull(q.r, min(n, BufLen))
             q1 == [q EXCEPT !.r = @ + f.n]
         IN  IF f.err # Nil THEN [p |-> q1, err |-> f.err]
             ELSE ignoreChunk(q1, n - f.n)
    ELSE [p |-> q, err |-> Nil]

\* the switch of parseChunk, for every tag but IDAT
dispatch(q, ct) ==
    CASE ct = TagIHDR -> parseHeader([q EXCEPT !.state = stateHeader])
      [] ct = TagPLTE -> parsePalette([q EXCEPT !.state = stateAnc])
      [] ct = TagtRNS -> parsetRNS([q EXCEPT !.state = stateAnc])
      [] ct = TagpHYs -> parsepHYs([q EXCEPT !.state = stateAnc])
      [] ct = TagIEND -> [p |-> [q EXCEPT !.state = stateEnd], err |-> Nil]
      [] OTHER -> ignoreChunk(q, q.readable)

parseChunk(q) ==
    LET setReadable(x) == Result({[y EXCEPT !.p.readable = y.v] : y \in {x}})
        Then(r, K(_)) ==
            Result({IF x.err # Nil THEN Return(x.p, x.err) ELSE K(x) : x \in {r}})
    IN  Then(setReadable(readBeUint32([q EXCEPT !.frames = @ \cup {q.r}])), LAMBDA a :
        Then(readString(a.p, 4), LAMBDA t :
        IF t.v = TagIDAT THEN Return([t.p EXCEPT !.state = stateData], Nil) ELSE
        Then(dispatch(t.p, t.v), LAMBDA d :
        Then(next(d.p, 4), LAMBDA crc :
        Return(crc.p, Nil)))))

\* for p.state < state { parseChunk }
RECURSIVE parseChunksUntil(_, _)
parseChunksUntil(q, state) ==
    LET Then(r, K(_)) ==
            Result({IF x.err # Nil THEN Return(x.p, x.err) ELSE K(x) : x \in {r}})
    IN  IF q.state < state
        THEN Then(parseChunk(q), LAMBDA c : parseChunksUntil(c.p, state))
        ELSE Return(q, Nil)

parseUntil(q, state) ==
    LET chunks(s) == parseChunksUntil(s.p, state)
        Then(r, K(_)) ==
            Result({IF x.err # Nil THEN Return(x.p, x.err) ELSE K(x) : x \in {r}})
    IN  IF q.state = stateInit
        THEN Then(parseSignature(q), chunks)
        ELSE chunks(Return(q, Nil))

\* for p.readable == 0 { parseChunk }
RECURSIVE parseWhileEmpty(_)
parseWhileEmpty(q) ==
    LET Then(r, K(_)) ==
            Result({IF x.err # Nil THEN Return(x.p, x.err) ELSE K(x) : x \in {r}})
    IN  IF q.readable = 0
        THEN Then(parseChunk(q), LAMBDA c : parseWhileEmpty(c.p))
        ELSE Return(q, Nil)

\* the buffer is sliced to nothing
ReadLenZero(k, readable) == 0

\* buf[:min(len(buf), int(p.readable))]
ReadLen(k, readable) == min(k, readable)

\* p.readable <= 0: the chunk is drained and its checksum is due
ChunkDrained(readable) == readable <= 0

\* return 0, err
ReadFailed(r) == [p |-> r.p, n |-> 0, err |-> r.err, b |-> <<>>]

\* lines 275-283: the copy out of the source and the checksum after the chunk
ReadData(q, k) ==
    LET rd == SourceRead(q.r, ReadLen(k, q.readable))
        q1 == [q EXCEPT !.r = @ + rd.n, !.readable = @ - rd.n]
        c == next(q1, 4)
    IN  IF ChunkDrained(q1.readable) THEN [p |-> c.p, n |-> rd.n, err |-> c.err, b |-> rd.b]
        ELSE [p |-> q1, n |-> rd.n, err |-> rd.err, b |-> rd.b]

\* pngStream.Read with len(buf) = k, k >= 1
Read(q, k) ==
    LET loop(u) ==
            LET data(l) == IF l.err # Nil THEN ReadFailed(l) ELSE ReadData(l.p, k)
            IN  IF u.err # Nil THEN ReadFailed(u)
                ELSE Result({data(x) : x \in {parseWhileEmpty(u.p)}})
    IN  IF q.state > stateData THEN ReadFailed(Return(q, EOF))
        ELSE Result({loop(x) : x \in {parseUntil(q, stateData)}})


(***************************************************************************)
(* Fpdf.parsepngstream                                                     *)
(***************************************************************************)
pngColorSpace(ct) ==
    CASE ct \in {0, 4} -> [colspace |-> "DeviceGray", colorVal |-> 1, err |-> Nil]
      [] ct \in {2, 6} -> [colspace |-> "DeviceRGB", colorVal |-> 3, err |-> Nil]
      [] ct = 3 -> [colspace |-> "Indexed", colorVal |-> 1, err |-> Nil]
      [] OTHER -> [colspace |-> "", colorVal |-> 1, err |-> ErrColorType]

\* the size of the bufio.Reader zlib.NewReader puts over p
BufioSize == 4096

\* compress/zlib's check of the two header bytes
zlibHeaderBad(b) ==
    b[1] % 16 # 8 \/ b[1] \div 16 > 7 \/ (b[1] * 256 + b[2]) % 31 # 0

\* the FDICT bit of the second header byte: four more bytes are read
zlibHaveDict(b) == (b[2] \div 32) % 2 = 1

\* io.ReadFull over the bufio.Reader: p.Read is called with a buffer of
\* BufioSize bytes until `need` bytes are there or a Read fails
RECURSIVE zlibFill(_, _, _)
zlibFill(q, got, need) ==
    LET filled(r) ==
            IF r.err # Nil
            THEN [p |-> r.p, b |-> got \o r.b, rerr |-> r.err,
                  err |-> IF Len(got) + r.n >= need THEN Nil
                          ELSE IF r.err = EOF THEN ErrUnexpectedEOF ELSE r.err]
            ELSE zlibFill(r.p, got \o r.b, need)
    IN  IF Len(got) >= need THEN [p |-> q, b |-> got, err |-> Nil, rerr |-> Nil]
        ELSE Result({filled(x) : x \in {Read(q, BufioSize)}})

\* zlib.NewReader(p): reads and checks the stream header
zlibNewReader(q) ==
    LET dict(d) == IF d.err # Nil THEN d ELSE [d EXCEPT !.err = ErrZlib]
        header(h) ==
            IF h.err # Nil THEN h
            ELSE IF zlibHeaderBad(h.b) THEN [h EXCEPT !.err = ErrZlib]
            ELSE IF ~zlibHaveDict(h.b) THEN h
            ELSE IF h.rerr # Nil THEN [h EXCEPT !.err = ErrUnexpectedEOF]
            ELSE Result({dict(x) : x \in {zlibFill(h.p, h.b, 6)}})
    IN  Result({header(x) : x \in {zlibFill(q, <<>>, 2)}})

\* the descriptor built at lines 381-390; r names the stream it exposes
NewImageInfo(q, cs) ==
    [w |-> q.w, h |-> q.h, cs |-> cs.colspace, bpc |-> q.bpc, f |-> "FlateDecode",
     dp |-> [Colors |-> cs.colorVal, BitsPerComponent |-> q.bpc, Columns |-> q.w],
     pal |-> q.pal, trns |-> q.trns, r |-> "p", smask |-> Nil, flush |-> Nil,
     closeHooks |-> <<>>]

\* info.addCloseHook(stm.Close, astm.Close, cstm.Close)
CloseHooks == <<"stm.Close", "astm.Close", "cstm.Close">>

\* the alpha pipeline put on the descriptor, lines 397-408
WithAlpha(i) ==
    [i EXCEPT !.r = "cstm", !.smask = "astm.alpha", !.flush = "astm.Flush",
              !.closeHooks = @ \o CloseHooks]

\* the test of the palette length is inverted
PaletteMissingInverted(cs, q) == cs.colspace = "Indexed" /\ Len(q.pal) # 0

\* colspace == "Indexed" && len(p.pal) == 0
PaletteMissing(cs, q) == cs.colspace = "Indexed" /\ Len(q.pal) = 0

\* f.pdfVersion < "1.4"
RaiseVersion(v) == IF v \in {"1.0", "1.1", "1.2", "1.3"} THEN "1.4" ELSE v

\* f.err is nil on entry; b is what p.Read returned inside the call
parsepngstream(readdpi) ==
    LET parsed(u) ==
            LET cs == pngColorSpace(u.p.ct)
                e1 == IF PaletteMissing(cs, u.p) THEN ErrPalette ELSE Nil
                i1 == NewImageInfo(u.p, cs)
                alpha(z) ==
                    IF z.err # Nil
                    THEN [p |-> z.p, info |-> <<i1>>, err |-> z.err, b |-> z.b,
                          rerr |-> z.rerr, alpha |-> FALSE]
                    ELSE [p |-> z.p, info |-> <<WithAlpha(i1)>>, err |-> e1, b |-> z.b,
                          rerr |-> z.rerr, alpha |-> TRUE]
            IN  IF u.err # Nil
                THEN [p |-> u.p, info |-> NoInfo, err |-> u.err, b |-> <<>>,
                      rerr |-> Nil, alpha |-> FALSE]
                ELSE IF cs.err # Nil
                THEN [p |-> u.p, info |-> NoInfo, err |-> cs.err, b |-> <<>>,
                      rerr |-> Nil, alpha |-> FALSE]
                ELSE IF u.p.ct < 4
                THEN [p |-> u.p, info |-> <<i1>>, err |-> e1, b |-> <<>>,
                      rerr |-> Nil, alpha |-> FALSE]
                ELSE Result({alpha(x) : x \in {zlibNewReader(u.p)}})
    IN  Result({parsed(x) : x \in {parseUntil(NewPngStream(readdpi), stateData)}})

(***************************************************************************)
(* The chunk reader as a state machine.                                    *)
(***************************************************************************)
GoodHdr == Hdr(8, 0, 0, 0, 0)

Img(sig, hasHdr, hdr, body, crc) ==
    LET i == [sig |-> sig, hasHdr |-> hasHdr, hdr |-> hdr, body |-> body, crc |-> crc,
              cut |-> 0]
    IN  [i EXCEPT !.cut = Len(EncodeFull(i))]

\* well-framed sources: every chunk sequence up to MaxChunks under two headers
FullImages ==
    {Img("good", TRUE, Hdr(8, ct, 0, 0, 0), body, crc) :
        ct \in {0, 3}, body \in Bodies, crc \in CRCs}

\* every header, with and without IHDR, under a good, bad or missing signature
HeaderImages ==
    {Img("good", TRUE, h, body, crc) :
        h \in StdHdrs \cup BadHdrs, body \in ShortBodies, crc \in CRCs}
    \cup {Img(sig, hasHdr, GoodHdr, body, CHOOSE c \in CRCs : c[1] # 0) :
        sig \in {"good", "bad", "none"}, hasHdr \in BOOLEAN, body \in ShortBodies}

\* sources cut short at every byte offset
TruncBodies == {<<"PLTE3", "IDAT2", "IEND">>, <<"tEXt1", "IDAT1", "IEND">>}

TruncImages ==
    UNION {LET i == Img("good", TRUE, GoodHdr, body, CHOOSE c \in CRCs : c[1] # 0)
           IN  {[i EXCEPT !.cut = n] : n \in 0..(i.cut - 1)} : body \in TruncBodies}

\* every value of the IHDR bit-depth byte, with and without a palette
DepthBodies == {<<"IDAT1", "IEND">>, <<"PLTE3", "IDAT2", "IEND">>}

DepthImages ==
    {Img("good", TRUE, Hdr(bpc, ct, 0, 0, 0), body, CHOOSE c \in CRCs : c[1] # 0) :
        bpc \in 0..255, ct \in {0, 3}, body \in DepthBodies}

\* a tRNS chunk of every declared length under the three color types that
\* parsetRNS tells apart
TrnsImages ==
    {Img("good", TRUE, Hdr(8, ct, 0, 0, 0), <<"PLTE3", k, "IDAT1", "IEND">>,
         CHOOSE c \in CRCs : c[1] # 0) :
        ct \in {0, 2, 3}, k \in TrnsKinds}

Images == FullImages \cup HeaderImages \cup TruncImages \cup DepthImages \cup TrnsImages

None == [out |-> <<>>, err |-> Nil]

NoCall == [op |-> "none", n |-> 0, err |-> Nil, state |-> stateInit, r |-> 0]

\* the alphaSeparator is not part of the chunk reader's runs
AlphaIdle ==
    /\ up = <<>>
    /\ astm = [rc |-> 0, w |-> 0, h |-> 0, chs |-> 1, stride |-> 1, off |-> 0]
    /\ color = <<>>
    /\ written = <<>>
    /\ aret = [len |-> 0, cap |-> 0, n |-> 0, err |-> Nil, took |-> 0, need |-> 0]

Init ==
    /\ img \in Images
    /\ src = Encode(img)
    /\ p = NewPngStream(FALSE)
    /\ out = <<>>
    /\ ret = [op |-> "none", n |-> 0, err |-> Nil]
    /\ final = None
    /\ first = NoCall
    /\ info = NoInfo
    /\ ferr = Nil
    /\ pdfVersion = "1.3"
    /\ AlphaIdle

\* the first Read that fails ends the caller's loop: remember what it had then
FinalAfter(o, e) == IF final = None /\ e # Nil THEN [out |-> o, err |-> e] ELSE final

FirstAfter(op, n, e, q) ==
    IF first = NoCall THEN [op |-> op, n |-> n, err |-> e, state |-> q.state, r |-> q.r]
    ELSE first

\* f.parsepngstream(r, readdpi) on a source nothing has read from yet
Parsepngstream ==
    /\ ret.op = "none"
    /\ \E readdpi \in BOOLEAN :
        \E c \in {parsepngstream(readdpi)} :
            /\ p' = c.p
            /\ info' = c.info
            /\ ferr' = c.err
            /\ out' = out \o c.b
            /\ final' = FinalAfter(out \o c.b, c.rerr)
            /\ first' = FirstAfter("parsepngstream", Len(c.b), c.err, c.p)
            /\ pdfVersion' = IF c.alpha THEN RaiseVersion(pdfVersion) ELSE pdfVersion
            /\ ret' = [op |-> "parsepngstream", n |-> Len(c.b), err |-> c.err]
    /\ UNCHANGED <<img, src, alphaVars>>

\* p.Read(buf) with len(buf) = k; a panic has ended the program
ReadCall ==
    /\ ret.err # Panic
    /\ \E k \in 1..MaxBuf :
        \E c \in {Read(p, k)} :
            /\ p' = c.p
            /\ out' = out \o c.b
            /\ final' = FinalAfter(out \o c.b, c.err)
            /\ first' = FirstAfter("Read", c.n, c.err, c.p)
            /\ ret' = [op |-> "Read", n |-> c.n, err |-> c.err]
    /\ UNCHANGED <<img, src, info, ferr, pdfVersion, alphaVars>>

Next == Parsepngstream \/ ReadCall

Spec == Init /\ [][Next]_vars

\* a caller that drains the stream: it goes on calling Read as long as a Read
\* can still change anything
SpecDrain == Spec /\ WF_vars(ReadCall)


(***************************************************************************)
(* alphaSeparator                                                          *)
(***************************************************************************)
\* io.ReadFull(a.rc, buf[:n]) with rc bytes of the upstream already consumed
UpReadFull(rc, n) ==
    LET avail == Len(up) - rc
    IN  IF n = 0 THEN [n |-> 0, err |-> Nil, b |-> <<>>]
        ELSE IF avail = 0 THEN [n |-> 0, err |-> EOF, b |-> <<>>]
        ELSE IF avail < n
             THEN [n |-> avail, err |-> ErrUnexpectedEOF, b |-> SubSeq(up, rc + 1, rc + avail)]
        ELSE [n |-> n, err |-> Nil, b |-> SubSeq(up, rc + 1, rc + n)]

newAlphaSeparator(w, h, chs) ==
    [rc |-> 0, w |-> w, h |-> h, chs |-> chs, stride |-> 1 + (chs + 1) * w, off |-> 0]

\* the filter-type byte is not written
FilterWriteSkipped(b) == <<>>

\* a.writer.Write(buf[:1]) of readPaletteIndex: the bytes the compressor gets
FilterWrite(b) == SubSeq(b, 1, 1)

\* the result of a Read: the receiver, n and err, the n bytes the caller gets
\* (b), the bytes written to a.writer (wr), the upstream bytes consumed (took)
\* and the length buf is sliced to (need)
readPaletteIndex(s) ==
    LET f == UpReadFull(s.rc, 1)
    IN  IF f.err # Nil
        THEN [a |-> s, n |-> 0, err |-> f.err, b |-> <<>>, wr |-> <<>>, took |-> 0,
              need |-> 1]
        ELSE [a |-> [s EXCEPT !.rc = @ + f.n, !.off = @ + f.n], n |-> f.n, err |-> Nil,
              b |-> f.b, wr |-> FilterWrite(f.b), took |-> f.n, need |-> 1]

\* buf[:a.chs + 1 - c]
PixelReadLen(chs, c) == chs + 1 - c

\* the first byte read is written instead of the last
AlphaWriteFirst(b, chs, c) == SubSeq(b, 1, 1)

\* a.writer.Write(buf[a.chs - c:a.chs + 1 - c]): the bytes the compressor gets
AlphaWrite(b, chs, c) == SubSeq(b, chs - c + 1, chs + 1 - c)

\* return n - 1: the bytes of buf the caller is told to take
PixelReturn(b, n) == SubSeq(b, 1, n - 1)

\* the end is reported one byte late
AtEndStrict(s) == s.off > s.h * s.stride

\* a.off >= a.h * a.stride
AtEnd(s) == s.off >= s.h * s.stride

\* alphaSeparator.Read(buf) with len(buf) = k and cap(buf) = cp; slicing buf
\* beyond its capacity is a run-time panic
alphaRead(s, k, cp) ==
    LET j == s.off % s.stride
        c == (j - 1) % (s.chs + 1)
        m == PixelReadLen(s.chs, c)
        f == UpReadFull(s.rc, m)
        s1 == [s EXCEPT !.rc = @ + f.n, !.off = @ + f.n]
    IN  IF k = 0
        THEN [a |-> s, n |-> 0, err |-> Nil, b |-> <<>>, wr |-> <<>>, took |-> 0, need |-> 0]
        ELSE IF AtEnd(s)
        THEN [a |-> s, n |-> 0, err |-> EOF, b |-> <<>>, wr |-> <<>>, took |-> 0, need |-> 0]
        ELSE IF j = 0 THEN readPaletteIndex(s)
        ELSE IF m > cp
        THEN [a |-> s, n |-> 0, err |-> Panic, b |-> <<>>, wr |-> <<>>, took |-> 0, need |-> m]
        ELSE IF f.err # Nil
        THEN [a |-> s1, n |-> f.n, err |-> f.err, b |-> f.b, wr |-> <<>>, took |-> f.n,
              need |-> m]
        ELSE [a |-> s1, n |-> f.n - 1, err |-> Nil, b |-> PixelReturn(f.b, f.n),
              wr |-> AlphaWrite(f.b, s.chs, c), took |-> f.n, need |-> m]

(***************************************************************************)
(* The alpha separator as a state machine.                                 *)
(***************************************************************************)
\* the largest buffer a caller hands to alphaSeparator.Read: a whole pixel of
\* an RGBA image and one byte more
MaxAlphaBuf == 5

\* the upstream holds distinct byte values: each byte is its own offset
Upstream(n) == [i \in 1..n |-> i - 1]

\* the chunk reader is not part of the separator's runs
PngIdle ==
    /\ img = Img("none", FALSE, GoodHdr, <<>>, <<0, 0, 0, 0>>)
    /\ src = <<>>
    /\ p = NewPngStream(FALSE)
    /\ out = <<>>
    /\ ret = [op |-> "none", n |-> 0, err |-> Nil]
    /\ final = None
    /\ first = NoCall
    /\ info = NoInfo
    /\ ferr = Nil
    /\ pdfVersion = "1.4"

\* newAlphaSeparator(stm, w, h, chs, new(bytes.Buffer)) over an upstream that
\* holds the h rows, one byte less, or one byte more
InitAlpha ==
    /\ PngIdle
    /\ \E w \in 0..MaxW, h \in 0..MaxH, chs \in {1, 3} :
        /\ astm = newAlphaSeparator(w, h, chs)
        /\ \E n \in {h * astm.stride - 1, h * astm.stride, h * astm.stride + 1} :
            /\ n >= 0
            /\ up = Upstream(n)
    /\ color = <<>>
    /\ written = <<>>
    /\ aret = [len |-> 0, cap |-> 0, n |-> 0, err |-> Nil, took |-> 0, need |-> 0]

\* astm.Read(buf): the caller's buffer has just its length, or room to spare
AlphaReadCall ==
    /\ aret.err # Panic
    /\ \E k \in 0..MaxAlphaBuf :
      \E cp \in {k, MaxAlphaBuf} :
        /\ LET c == alphaRead(astm, k, cp)
           IN  /\ astm' = c.a
               /\ color' = color \o c.b
               /\ written' = written \o c.wr
               /\ aret' = [len |-> k, cap |-> cp, n |-> c.n, err |-> c.err,
                           took |-> c.took, need |-> c.need]
    /\ UNCHANGED <<up, pngVars>>

NextAlpha == AlphaReadCall

SpecAlpha == InitAlpha /\ [][NextAlpha]_vars


(***************************************************************************)
(* What the enumerated sources contain, read off their descriptions.       *)
(***************************************************************************)
IsIDAT(k) == k \in {"IDAT0", "IDAT1", "IDAT2"}

FullLen(i) == Len(EncodeFull(i))

\* the offset at which the j-th chunk after IHDR starts
ChunkOffset(i, j) ==
    Len(EncodeSig(i.sig)) + (IF i.hasHdr THEN Len(EncodeHeader(i.hdr, i.crc)) ELSE 0)
        + Len(EncodeBody(SubSeq(i.body, 1, j - 1), 1, i.crc))

\* the offsets at which the signature or a chunk ends
Boundaries(i) ==
    {Len(EncodeSig(i.sig))} \cup {ChunkOffset(i, j) : j \in 1..(Len(i.body) + 1)}

HasIDAT(i) == \E j \in 1..Len(i.body) : IsIDAT(i.body[j])

FirstIDAT(i) == CHOOSE j \in 1..Len(i.body) :
    IsIDAT(i.body[j]) /\ \A k \in 1..(j - 1) : ~IsIDAT(i.body[k])

RECURSIVE IdatPayloads(_, _)
IdatPayloads(body, j) ==
    IF j > Len(body) THEN <<>>
    ELSE (IF IsIDAT(body[j]) THEN KindPayload(body[j], j) ELSE <<>>)
             \o IdatPayloads(body, j + 1)

\* signature, an accepted IHDR, chunks, and IEND as the last chunk and only there
WellFramed(i) ==
    /\ i.sig = "good" /\ i.hasHdr /\ i.hdr \in StdHdrs
    /\ i.cut = FullLen(i)
    /\ Len(i.body) >= 1
    /\ \A j \in 1..Len(i.body) : (i.body[j] = "IEND") <=> (j = Len(i.body))

\* after the first IDAT chunk: non-empty IDAT chunks and empty other chunks only
Contiguous(i) ==
    /\ HasIDAT(i)
    /\ \A j \in FirstIDAT(i)..(Len(i.body) - 1) : i.body[j] \in {"IDAT1", "IDAT2", "tEXt0"}

\* Read with buffers of k bytes until the first error: the bytes returned
RECURSIVE Drain(_, _)
Drain(q, k) ==
    LET c == Read(q, k)
    IN  IF c.err # Nil THEN c.b ELSE c.b \o Drain(c.p, k)

(***************************************************************************)
(* C1  Pass-through: for a well-framed source of color type 0, 2 or 3,     *)
(* reading until end-of-stream returns exactly the payload bytes of all    *)
(* IDAT chunks, in file order, whatever chunks lie between or after them.  *)
(***************************************************************************)
PassThrough ==
    (WellFramed(img) /\ img.hdr.ct \in {0, 2, 3} /\ final # None)
        => (final.out = IdatPayloads(img.body, 1) /\ final.err = EOF)

\* the same for sources whose IDAT chunks are non-empty and followed only by
\* IDAT chunks and empty chunks: there the pass-through holds
PassThroughContiguous ==
    (WellFramed(img) /\ Contiguous(img) /\ img.hdr.ct \in {0, 3} /\ final # None)
        => (final.out = IdatPayloads(img.body, 1) /\ final.err = EOF)

PassThroughContiguousReached ==
    /\ WellFramed(img) /\ Contiguous(img) /\ img.hdr.ct \in {0, 3}
    /\ final # None /\ Len(final.out) >= 4

(***************************************************************************)
(* C4  Read-size independence: the bytes Read returns up to its first      *)
(* error are the same for every sequence of buffer lengths: they are what  *)
(* 1-byte reads return and what reads with one large buffer return.        *)
(***************************************************************************)
\* the pngStream the caller's Reads start from: a new one, or the one
\* parsepngstream has run to stateData
ReadStart ==
    IF first.op = "parsepngstream" THEN parseUntil(NewPngStream(FALSE), stateData).p
    ELSE NewPngStream(FALSE)

ReadSizeIndependent ==
    final # None
        => /\ final.out = Drain(ReadStart, 1)
           /\ final.out = Drain(ReadStart, BufioSize)

\* two IDAT chunks of two bytes each were drained
ReadSizeIndependentReached ==
    /\ final # None
    /\ Len(final.out) >= 4
    /\ \E j \in 1..(Len(img.body) - 1) : img.body[j] = "IDAT2" /\ img.body[j + 1] = "IDAT2"

(***************************************************************************)
(* C6  Signature check: on a source whose first 8 bytes are there and are  *)
(* not the PNG signature the first call fails with the signature error; on *)
(* an empty source it reports io.EOF; neither returns a byte or a          *)
(* descriptor.                                                             *)
(***************************************************************************)
SignatureWrong == Len(src) >= Len(pngSignature) /\ SubSeq(src, 1, Len(pngSignature)) # pngSignature

SignatureChecked ==
    first # NoCall
        => /\ SignatureWrong => (first.err = ErrSignature /\ first.n = 0 /\ info = NoInfo)
           /\ Len(src) = 0 => (first.err = EOF /\ first.n = 0 /\ info = NoInfo)

SignatureCheckedReached ==
    SignatureWrong /\ first # NoCall /\ first.err = ErrSignature

(***************************************************************************)
(* C7  A source that ends inside the signature, a chunk frame header, a    *)
(* payload or a checksum is reported with an error other than the clean    *)
(* end-of-stream io.EOF.                                                   *)
(***************************************************************************)
MidCut(i) == i.cut > 0 /\ i.cut < FullLen(i) /\ i.cut \notin Boundaries(i)

TruncationDistinct ==
    MidCut(img) => (first.err # EOF /\ final.err # EOF)

(***************************************************************************)
(* C8  Header validation precedes data: an IHDR with bit depth > 8 or a    *)
(* nonzero compression, filter or interlace method makes the first         *)
(* parseUntil(stateData) fail with a FormatError in state Header, with no  *)
(* byte past the IHDR chunk read.                                          *)
(***************************************************************************)
HdrRejected(h) == h.bpc > 8 \/ h.comp # 0 \/ h.filt # 0 \/ h.ilace # 0

HeaderEnd(i) == ChunkOffset(i, 1)

HeaderBeforeData ==
    (first # NoCall /\ img.sig = "good" /\ img.hasHdr /\ HdrRejected(img.hdr)
        /\ img.cut >= HeaderEnd(img))
        => /\ first.err \in {ErrDepth, ErrCompression, ErrFilter, ErrInterlace}
           /\ first.state = stateHeader
           /\ first.r <= HeaderEnd(img)
           /\ first.n = 0

HeaderBeforeDataReached ==
    /\ first # NoCall /\ img.sig = "good" /\ img.hasHdr /\ img.hdr.bpc = 16
    /\ HasIDAT(img) /\ first.err = ErrDepth

(***************************************************************************)
(* C9  Color type 3 with no PLTE chunk, or only an empty one, before the   *)
(* first IDAT chunk: parsepngstream records the missing-palette error, and *)
(* it has then read no byte of an IDAT payload.                            *)
(***************************************************************************)
IdatPayloadOffset(i) == ChunkOffset(i, FirstIDAT(i)) + 8

IndexedNoPalette(i) ==
    /\ i.sig = "good" /\ i.hasHdr /\ i.hdr = Hdr(8, 3, 0, 0, 0)
    /\ HasIDAT(i)
    /\ \A j \in 1..(FirstIDAT(i) - 1) : i.body[j] # "PLTE3"
    /\ i.cut >= IdatPayloadOffset(i)

MissingPalette ==
    (first.op = "parsepngstream" /\ IndexedNoPalette(img))
        => (ferr = ErrPalette /\ first.r <= IdatPayloadOffset(img))

MissingPaletteReached ==
    /\ first.op = "parsepngstream" /\ IndexedNoPalette(img) /\ ferr = ErrPalette
    /\ "PLTE0" \in {img.body[j] : j \in 1..Len(img.body)}

(***************************************************************************)
(* C10  An error and a descriptor never coexist: whenever parsepngstream   *)
(* records an error, the descriptor it returns is nil.                     *)
(***************************************************************************)
ErrorMeansNoDescriptor == ferr # Nil => info = NoInfo

(***************************************************************************)
(* C11  Descriptor invariant: a descriptor returned by parsepngstream      *)
(* without error has bits-per-channel in {1, 2, 4, 8}, and a non-empty     *)
(* palette when its color model is Indexed, for every value 0..255 of the  *)
(* IHDR bit-depth byte.                                                    *)
(***************************************************************************)
DescriptorInvariant ==
    (info # NoInfo /\ ferr = Nil)
        => /\ info[1].bpc \in {1, 2, 4, 8}
           /\ info[1].cs = "Indexed" => Len(info[1].pal) > 0

\* the palette half alone: it holds
IndexedHasPalette ==
    (info # NoInfo /\ ferr = Nil /\ info[1].cs = "Indexed") => Len(info[1].pal) > 0

IndexedHasPaletteReached ==
    info # NoInfo /\ ferr = Nil /\ info[1].cs = "Indexed" /\ info[1].bpc = 4


(***************************************************************************)
(* C12  For an alpha-carrying image the close hooks on the descriptor      *)
(* release the stages outer-to-inner: the recompressor is closed before    *)
(* the separator's alpha compressor, which is closed before the raw        *)
(* inflate stream.                                                         *)
(***************************************************************************)
\* teardown: the collaborator invokes the close callbacks in listed order
Teardown(i) == i.closeHooks

HookIndex(hooks, h) == CHOOSE j \in 1..Len(hooks) : hooks[j] = h

CloseOuterToInner ==
    (info # NoInfo /\ info[1].closeHooks # <<>>)
        => LET t == Teardown(info[1])
           IN  /\ HookIndex(t, "cstm.Close") < HookIndex(t, "astm.Close")
               /\ HookIndex(t, "astm.Close") < HookIndex(t, "stm.Close")


(***************************************************************************)
(* C13  Parser state is monotone: no parsepngstream or Read call leaves    *)
(* the state of the pngStream lower than it found it, in the order         *)
(* Init < Signature < Header < Ancillary < Data < End, whatever the order  *)
(* of chunk types in the source.                                           *)
(***************************************************************************)
StateMonotone == [][p'.state >= p.state]_vars


(***************************************************************************)
(* C14  End is final: once the IEND chunk has been dispatched, the Read    *)
(* that dispatched it and every later Read return io.EOF with zero bytes,  *)
(* no further chunk frame is parsed and no source byte after the IEND      *)
(* chunk is returned, even when bytes follow IEND in the source.           *)
(***************************************************************************)
HasIEND(i) == \E j \in 1..Len(i.body) : i.body[j] = "IEND"

FirstIEND(i) == CHOOSE j \in 1..Len(i.body) :
    i.body[j] = "IEND" /\ \A k \in 1..(j - 1) : i.body[k] # "IEND"

\* the offset at which the first IEND chunk ends
IendEnd(i) == ChunkOffset(i, FirstIEND(i) + 1)

\* a whole source whose chunks up to the first IEND keep the reader on the
\* chunk frames: after an IDAT chunk, non-empty IDAT chunks and empty chunks
AlignedToEnd(i) ==
    /\ i.sig = "good" /\ i.hasHdr /\ i.hdr \in StdHdrs /\ i.hdr.ct \in {0, 3}
    /\ i.cut = FullLen(i)
    /\ HasIEND(i)
    /\ \A j \in 1..(FirstIEND(i) - 1) :
          (\E k \in 1..(j - 1) : IsIDAT(i.body[k]))
              => i.body[j] \in {"IDAT1", "IDAT2", "tEXt0"}
    /\ \A j \in 1..(FirstIEND(i) - 1) : i.body[j] # "IDAT0"

EndFinal ==
    AlignedToEnd(img)
        => /\ p.r <= IendEnd(img)
           /\ (ret.op = "Read" /\ p.r >= IendEnd(img)) => (ret.n = 0 /\ ret.err = EOF)

\* the same on sources that end with their IEND chunk: there it holds
EndFinalNoTrailer ==
    (AlignedToEnd(img) /\ FirstIEND(img) = Len(img.body))
        => /\ p.r <= IendEnd(img)
           /\ (ret.op = "Read" /\ p.r >= IendEnd(img)) => (ret.n = 0 /\ ret.err = EOF)


(***************************************************************************)
(* C15  Checksum consumption keeps the reader frame-aligned: the checksum  *)
(* of every chunk, an IDAT chunk of declared length 0 included, is         *)
(* consumed once, after the payload and before the next frame header, so   *)
(* every chunk frame is parsed at the offset where a chunk of the source   *)
(* starts (or at the end of the source).                                   *)
(***************************************************************************)
\* the offsets at which the chunks of the source start, and its end
ChunkStarts(i) ==
    {Len(EncodeSig(i.sig))} \cup {ChunkOffset(i, j) : j \in 1..(Len(i.body) + 1)}

\* a whole source with a good signature and an accepted IHDR, in which an
\* IDAT chunk is followed by IDAT chunks and empty chunks only, and IEND is
\* nowhere but at the end
IdatRun(i) ==
    /\ i.sig = "good" /\ i.hasHdr /\ i.hdr \in StdHdrs /\ i.hdr.ct \in {0, 3}
    /\ i.cut = FullLen(i)
    /\ \A j \in 1..Len(i.body) : i.body[j] = "IEND" => j = Len(i.body)
    /\ \A j \in 1..Len(i.body) :
          (\E k \in 1..(j - 1) : IsIDAT(i.body[k]))
              => i.body[j] \in {"IDAT0", "IDAT1", "IDAT2", "tEXt0", "IEND"}

HasEmptyIDAT(i) == \E j \in 1..Len(i.body) : i.body[j] = "IDAT0"

FrameAligned ==
    IdatRun(img) => p.frames \subseteq ChunkStarts(img)

\* the same without IDAT chunks of declared length 0: there it holds
FrameAlignedNonEmpty ==
    (IdatRun(img) /\ ~HasEmptyIDAT(img))
        => p.frames \subseteq ChunkStarts(img)


(***************************************************************************)
(* The layout of the raw scanline stream, by upstream offset (0-based).    *)
(* An upstream byte is its own offset, so a byte tells where it came from. *)
(***************************************************************************)
\* the row's filter-type byte
IsFilter(o) == o % astm.stride = 0

\* the (C+1)-th byte of a pixel
IsAlpha(o) ==
    /\ o % astm.stride # 0
    /\ ((o % astm.stride) - 1) % (astm.chs + 1) = astm.chs

NotAlpha(o) == ~IsAlpha(o)

IsFilterOrAlpha(o) == IsFilter(o) \/ IsAlpha(o)

\* the h rows of the image
Rows == SubSeq(up, 1, astm.h * astm.stride)

\* what the separator has taken from the upstream
Consumed == SubSeq(up, 1, astm.off)

\* Read has reported the end of the h rows
AlphaDrained == aret.err = EOF /\ astm.off >= astm.h * astm.stride

\* the rows put together again from the color stream (1 + C*W bytes a row)
\* and the mask stream (1 + W bytes a row, the first one the filter byte)
Reinterleave(col, wr) ==
    [i \in 1..(astm.h * astm.stride) |->
        LET r == (i - 1) \div astm.stride
            j == (i - 1) % astm.stride
            x == (j - 1) \div (astm.chs + 1)
            c == (j - 1) % (astm.chs + 1)
            crow == r * (1 + astm.chs * astm.w)
            mrow == r * (1 + astm.w)
        IN  IF j = 0 THEN col[crow + 1]
            ELSE IF c = astm.chs THEN wr[mrow + 1 + x + 1]
            ELSE col[crow + 1 + x * astm.chs + c + 1]]

(***************************************************************************)
(* C2  Alpha demultiplexing round trip: once the h rows are drained, the   *)
(* caller has received exactly the non-alpha bytes in upstream order, the  *)
(* compressor has received every alpha byte in upstream order, no alpha    *)
(* byte was returned to the caller, and the two outputs re-interleave to   *)
(* the upstream rows.                                                      *)
(***************************************************************************)
AlphaRoundTrip ==
    AlphaDrained
        => /\ color = SelectSeq(Rows, NotAlpha)
           /\ SelectSeq(written, IsAlpha) = SelectSeq(Rows, IsAlpha)
           /\ \A i \in 1..Len(color) : ~IsAlpha(color[i])
           /\ Reinterleave(color, written) = Rows

AlphaRoundTripReached ==
    AlphaDrained /\ astm.w = 2 /\ astm.h = 2 /\ astm.chs = 3 /\ Len(color) = 14

(***************************************************************************)
(* C3  The filter-type byte of a row is forwarded to the caller and never  *)
(* written to the alpha compressor: what the compressor gets holds no      *)
(* filter-type byte.                                                       *)
(***************************************************************************)
FilterByteNotInAlpha ==
    /\ SelectSeq(color, IsFilter) = SelectSeq(Consumed, IsFilter)
    /\ \A i \in 1..Len(written) : ~IsFilter(written[i])

\* C3 as amended: the filter-type byte of a row is forwarded to the caller
\* and is also written to the alpha compressor: what the compressor gets is,
\* in upstream order, the filter-type byte of every row read followed by the
\* alpha samples of that row.
FilterByteInBoth ==
    /\ SelectSeq(color, IsFilter) = SelectSeq(Consumed, IsFilter)
    /\ written = SelectSeq(Consumed, IsFilterOrAlpha)

FilterByteInBothReached ==
    /\ astm.off >= 2 * astm.stride
    /\ astm.w >= 1
    /\ \E i \in 1..Len(written) : IsFilter(written[i]) /\ written[i] > 0
    /\ \E i \in 1..Len(written) : IsAlpha(written[i])

(***************************************************************************)
(* C5  Read works for every buffer length >= 1: a call transfers a single  *)
(* upstream byte, returns at most one byte, and never slices the caller's  *)
(* buffer beyond its length.                                               *)
(***************************************************************************)
SingleByteTransfers ==
    /\ aret.took <= 1
    /\ aret.n <= 1
    /\ aret.need <= aret.len
    /\ aret.err # Panic

(***************************************************************************)
(* C16  The separator terminates at offset h * stride, with                *)
(* stride = 1 + (chs + 1) * w: the offset stays within 0..h * stride, no   *)
(* Read consumes upstream bytes of two rows or of two pixels, exactly      *)
(* h * stride upstream bytes are consumed when the upstream supplies them, *)
(* and a Read with a non-empty buffer at offset h * stride returns io.EOF  *)
(* and touches neither the upstream nor the alpha compressor.              *)
(***************************************************************************)
\* the row of upstream offset o, and its pixel within the row (-1: the
\* filter-type byte)
RowOf(o) == o \div astm.stride

PixelOf(o) ==
    IF o % astm.stride = 0 THEN -1 ELSE ((o % astm.stride) - 1) \div (astm.chs + 1)

\* the upstream offsets the last Read consumed
LastTaken == (astm.off - aret.took)..(astm.off - 1)

OffInRange ==
    /\ astm.stride = 1 + (astm.chs + 1) * astm.w
    /\ 0 <= astm.off /\ astm.off <= astm.h * astm.stride
    /\ astm.rc = astm.off

OneUnitPerRead ==
    \A o1, o2 \in LastTaken : RowOf(o1) = RowOf(o2) /\ PixelOf(o1) = PixelOf(o2)

ConsumedAll ==
    (aret.err = EOF /\ Len(up) >= astm.h * astm.stride) => astm.off = astm.h * astm.stride

EndIsFinal ==
    (astm.off = astm.h * astm.stride /\ aret'.len >= 1)
        => /\ aret'.err = EOF /\ aret'.n = 0 /\ aret'.took = 0
           /\ astm' = astm /\ written' = written /\ color' = color

AlphaTerminates ==
    /\ [](OffInRange /\ OneUnitPerRead /\ ConsumedAll)
    /\ [][EndIsFinal]_vars

\* two rows of two RGBA pixels were consumed, one more byte is left in the
\* upstream, and a Read has reported the end
AlphaTerminatesReached ==
    /\ astm.w = 2 /\ astm.h = 2 /\ astm.chs = 3
    /\ astm.off = astm.h * astm.stride
    /\ Len(up) > astm.off
    /\ aret.err = EOF /\ aret.len >= 1

(***************************************************************************)
(* C17  Termination on a finite source: every iteration of the chunk loops *)
(* of parseUntil and Read consumes at least 8 source bytes or fails, a     *)
(* Read that succeeds consumes at least one source byte, and a caller that *)
(* keeps calling Read with a non-empty buffer eventually gets io.EOF or an *)
(* error.                                                                  *)
(***************************************************************************)
\* a call consumes at least 8 source bytes for every chunk frame it parses,
\* but for the one at which it fails
LoopsConsume ==
    p'.r - p.r >= 8 * (Cardinality(p'.frames \ p.frames)
                           - (IF ret'.err = Nil THEN 0 ELSE 1))

ReadConsumes == (ret'.op = "Read" /\ ret'.err = Nil) => (ret'.n >= 1 /\ p'.r > p.r)

\* a Read has failed, or the program has ended in a panic
ReadEnded == (ret.op = "Read" /\ ret.err # Nil) \/ ret.err = Panic

TerminatesOnFinite ==
    /\ [](p.r <= Len(src))
    /\ [][LoopsConsume /\ ReadConsumes]_vars
    /\ <>ReadEnded

\* three chunk frames were parsed and a Read that returned bytes was followed
\* by one that reported the end
TerminatesOnFiniteReached ==
    /\ Cardinality(p.frames) >= 3
    /\ Len(out) >= 2
    /\ ret.op = "Read" /\ ret.err = EOF

(***************************************************************************)
(* C18  Format errors are sticky: the state Signature is entered only when *)
(* the signature has been verified, and once a call has failed with the    *)
(* signature error or with a rejected IHDR field, every later Read fails   *)
(* too and returns no payload byte.                                        *)
(***************************************************************************)
SignatureGood ==
    Len(src) >= Len(pngSignature) /\ SubSeq(src, 1, Len(pngSignature)) = pngSignature

\* the FormatErrors of parseSignature and parseHeader
ParseFormatErrors == {ErrSignature, ErrDepth, ErrCompression, ErrFilter, ErrInterlace}

FormatErrorsSticky ==
    /\ p.state # stateInit => SignatureGood
    /\ (first.err \in ParseFormatErrors /\ ret.op = "Read")
          => (ret.err # Nil /\ ret.n = 0 /\ out = <<>>)

\* the second half alone
FormatErrorPoisons ==
    (first.err \in ParseFormatErrors /\ ret.op = "Read")
        => (ret.err # Nil /\ ret.n = 0 /\ out = <<>>)

(***************************************************************************)
(* C19  A descriptor is built only after an IHDR chunk has been parsed: a  *)
(* source whose first chunk after the signature is IDAT or IEND never      *)
(* yields a descriptor without error.                                      *)
(***************************************************************************)
\* a whole source with a good signature, no IHDR, and IDAT or IEND first
NoHeaderFirst(i) ==
    /\ i.sig = "good" /\ ~i.hasHdr /\ i.cut = FullLen(i)
    /\ Len(i.body) >= 1
    /\ (IsIDAT(i.body[1]) \/ i.body[1] = "IEND")

HeaderBeforeDescriptor ==
    (NoHeaderFirst(img) /\ first.op = "parsepngstream")
        => ~(info # NoInfo /\ ferr = Nil)

(***************************************************************************)
(* C20  tRNS handling is total over declared lengths: the transparency is  *)
(* the byte at payload offset 1 for color type 0, the bytes at offsets 1,  *)
(* 3, 5 for color type 2, otherwise the index of the first zero byte; and  *)
(* for every declared length, those too short for these offsets included,  *)
(* parsing ends with the transparency set by that rule or with a           *)
(* FormatError, never with an abort of the decoder.                        *)
(***************************************************************************)
\* a whole source: signature, IHDR, PLTE, one tRNS chunk, IDAT, IEND
TrnsSource(i) ==
    /\ i.sig = "good" /\ i.hasHdr /\ i.hdr \in StdHdrs /\ i.hdr.ct \in {0, 2, 3}
    /\ i.cut = FullLen(i)
    /\ Len(i.body) = 4 /\ i.body[1] = "PLTE3" /\ i.body[2] \in TrnsKinds
    /\ i.body[3] = "IDAT1"

\* payload offsets are 0-based, sequences 1-based
TrnsExpected(ct, t) ==
    CASE ct = 0 -> <<t[2]>>
      [] ct = 2 -> <<t[2], t[4], t[6]>>
      [] OTHER -> IF \E j \in 1..Len(t) : t[j] = 0
                  THEN <<(CHOOSE j \in 1..Len(t) : t[j] = 0 /\ \A k \in 1..(j - 1) : t[k] # 0) - 1>>
                  ELSE <<>>

\* the payload holds the offsets the color type asks for
TrnsLongEnough(ct, t) ==
    CASE ct = 0 -> Len(t) >= 2
      [] ct = 2 -> Len(t) >= 6
      [] OTHER -> TRUE

TrnsTotal ==
    (TrnsSource(img) /\ ret.op = "parsepngstream")
        => /\ ferr # Panic
           /\ ferr # Nil => ferr \in FormatErrors
           /\ ferr = Nil => p.trns = TrnsExpected(img.hdr.ct, KindPayload(img.body[2], 2))

\* the rule alone, on payloads long enough for it: it holds
TrnsByRule ==
    (TrnsSource(img) /\ ret.op = "parsepngstream"
        /\ TrnsLongEnough(img.hdr.ct, KindPayload(img.body[2], 2)))
        => (ferr = Nil /\ p.trns = TrnsExpected(img.hdr.ct, KindPayload(img.body[2], 2)))

====
